---- MODULE Spec2Model ----
(***************************************************************************)
(* Model of the transparency-log client of rekor-server                    *)
(* (src/app/trillian_client.go) together with the log service it talks to. *)
(*                                                                         *)
(* The client operations are modelled one action per RPC round trip, so    *)
(* that the log service can change between two round trips of one call.    *)
(* Hashes are modelled symbolically: a digest is the framed preimage, so   *)
(* two digests are equal exactly when their preimages are (an ideal,       *)
(* collision-free SHA-256).                                                *)
(***************************************************************************)
EXTENDS Integers, Sequences, FiniteSets, TLC

\* ---- bounds of the model ------------------------------------------------
MaxTrees == 2          \* trees the admin service will hold
MaxLeaves == 3         \* leaves sequenced into one log tree

\* ---- values ---------------------------------------------------------------
\* payloads are byte strings: "a", "b", and the two-byte "\x00\x01"
Payloads == { <<97>>, <<98>>, <<0, 1>> }
TreeIds == 1..MaxTrees
Callers == {1, 2}

LOG == "LOG"
MAP == "MAP"
ACTIVE == "ACTIVE"
FROZEN == "FROZEN"

\* rfc6962 domain separation prefixes
LeafHashPrefix == 0
NodeHashPrefix == 1

\* ---- rfc6962.DefaultHasher -------------------------------------------------
\* SHA256(0x00 || leaf); the length frames the preimage
HashLeaf(leaf) == <<LeafHashPrefix, Len(leaf)>> \o leaf
\* SHA256(0x01 || l || r)
HashChildren(l, r) == <<NodeHashPrefix>> \o l \o r
\* SHA256 of the empty string: the root of the empty tree
EmptyRoot == <<2>>

\* ---- bit arithmetic used by the log verifier -------------------------------
RECURSIVE BitLen(_)
BitLen(n) == IF n = 0 THEN 0 ELSE 1 + BitLen(n \div 2)

RECURSIVE OnesCount(_)
OnesCount(n) == IF n = 0 THEN 0 ELSE (n % 2) + OnesCount(n \div 2)

RECURSIVE Xor(_, _)
Xor(a, b) ==
    IF a = 0 /\ b = 0 THEN 0
    ELSE (IF (a % 2) # (b % 2) THEN 1 ELSE 0) + 2 * Xor(a \div 2, b \div 2)

RECURSIVE Pow2(_)
Pow2(n) == IF n = 0 THEN 1 ELSE 2 * Pow2(n - 1)

ShiftRight(n, k) == n \div Pow2(k)

\* ---- merkle.LogVerifier ----------------------------------------------------
innerProofSize(index, size) == BitLen(Xor(index, size - 1))

RECURSIVE chainInnerFrom(_, _, _, _)
chainInnerFrom(seed, proof, index, i) ==
    IF i > Len(proof) THEN seed
    ELSE chainInnerFrom(
             IF ShiftRight(index, i - 1) % 2 = 0
             THEN HashChildren(seed, proof[i])
             ELSE HashChildren(proof[i], seed),
             proof, index, i + 1)

chainInner(seed, proof, index) == chainInnerFrom(seed, proof, index, 1)

RECURSIVE chainBorderRight(_, _)
chainBorderRight(seed, proof) ==
    IF proof = <<>> THEN seed
    ELSE chainBorderRight(HashChildren(Head(proof), seed), Tail(proof))

\* the value returned when no root can be derived
NoHash == <<>>

RootFromInclusionProof(leafIndex, treeSize, proof, leafHash) ==
    IF leafIndex < 0 \/ treeSize < 0 \/ leafIndex >= treeSize THEN NoHash
    ELSE LET inner == innerProofSize(leafIndex, treeSize)
             border == OnesCount(ShiftRight(leafIndex, inner))
         IN  IF Len(proof) # inner + border THEN NoHash
             ELSE chainBorderRight(
                      chainInner(leafHash, SubSeq(proof, 1, inner), leafIndex),
                      SubSeq(proof, inner + 1, Len(proof)))

\* TRUE when VerifyInclusionProof returns nil
VerifyInclusionProof(leafIndex, treeSize, proof, root, leafHash) ==
    LET calcRoot == RootFromInclusionProof(leafIndex, treeSize, proof, leafHash)
    IN  calcRoot # NoHash /\ calcRoot = root

\* ---- the log service (trillian-log-server, trillian-log-signer) -------------
\* largest power of two smaller than n (n >= 2)
SplitPoint(n) == Pow2(BitLen(n - 1) - 1)

\* Merkle tree hash of a list of leaf values (RFC 6962, section 2.1)
RECURSIVE MerkleTreeHash(_)
MerkleTreeHash(leaves) ==
    IF Len(leaves) = 0 THEN EmptyRoot
    ELSE IF Len(leaves) = 1 THEN HashLeaf(leaves[1])
    ELSE LET k == SplitPoint(Len(leaves))
         IN  HashChildren(MerkleTreeHash(SubSeq(leaves, 1, k)),
                          MerkleTreeHash(SubSeq(leaves, k + 1, Len(leaves))))

\* Merkle audit path of the leaf at 0-based index m (RFC 6962, section 2.1.1)
RECURSIVE MerklePath(_, _)
MerklePath(m, leaves) ==
    IF Len(leaves) <= 1 THEN <<>>
    ELSE LET k == SplitPoint(Len(leaves))
         IN  IF m < k
             THEN Append(MerklePath(m, SubSeq(leaves, 1, k)),
                         MerkleTreeHash(SubSeq(leaves, k + 1, Len(leaves))))
             ELSE Append(MerklePath(m - k, SubSeq(leaves, k + 1, Len(leaves))),
                         MerkleTreeHash(SubSeq(leaves, 1, k)))

VARIABLES
    trees,        \* the admin service's trees, in ListTrees order; tree id = position
    logs,         \* per tree id: the pending-leaf queue and the sequenced leaves
    logID,        \* trillianclient.logID, set by serverInstance
    calls,        \* per caller: the operation in progress and its locals
    provisioned,  \* per caller and kind: the tree its latest successful provisioning returned
    alive,        \* FALSE once the process has been terminated
    enforce       \* the configuration flag rekor_server.enforce_text_only

vars == <<trees, logs, logID, calls, provisioned, alive, enforce>>

\* ---- trees ------------------------------------------------------------------
RFC6962 == "RFC6962_SHA256"
CONIKS == "CONIKS_SHA256"

\* the tree createAndInitTree / createAndInitMap asks CreateTree for
NewTree(kind) ==
    [type |-> kind,
     strategy |-> IF kind = LOG THEN RFC6962 ELSE CONIKS,
     state |-> ACTIVE,
     init |-> FALSE,
     byClient |-> TRUE]

\* a tree the service held before this client ever ran
OldTree(kind, st) ==
    [type |-> kind,
     strategy |-> IF kind = LOG THEN RFC6962 ELSE CONIKS,
     state |-> st,
     init |-> TRUE,
     byClient |-> FALSE]

ServiceStates ==
    { <<>>, <<OldTree(LOG, ACTIVE)>>, <<OldTree(LOG, FROZEN)>>, <<OldTree(MAP, ACTIVE)>> }

EmptyLog == [queued |-> {}, leaves |-> <<>>]

\* the log RPCs serve a tree that exists, is a log and has been initialized
Serves(tid) ==
    /\ tid \in 1..Len(trees)
    /\ trees[tid].type = LOG
    /\ trees[tid].init

SeqToSet(q) == { q[i] : i \in 1..Len(q) }

\* ---- per-call state -----------------------------------------------------------
NoRoot == [size |-> 0, hash |-> NoHash]
NilResp == [nil |-> TRUE, proofs |-> <<>>, leaves |-> <<>>]

Idle ==
    [op |-> "none", pc |-> "idle", kind |-> "-", payload |-> <<>>, tid |-> 0,
     tree |-> 0, root |-> NoRoot, got |-> NilResp, resp |-> NilResp,
     err |-> "nil", status |-> "-", creates |-> 0, srv |-> "-",
     seen |-> "-", skew |-> FALSE, inits |-> 0, rootSrv |-> "-",
     proofReqs |-> 0, allowed |-> FALSE]

Init ==
    /\ trees \in ServiceStates
    /\ logs = [t \in TreeIds |-> EmptyLog]
    /\ logID \in TreeIds
    /\ calls = [c \in Callers |-> Idle]
    /\ provisioned = [c \in Callers |-> [k \in {LOG, MAP} |-> 0]]
    /\ alive = TRUE
    /\ enforce \in BOOLEAN

\* ---- createAndInitTree / createAndInitMap ------------------------------------
\* a scan that never finds an existing tree
FirstOfType_NeverFound(list, kind) == 0

\* index of the first tree of the wanted type in a ListTrees response, 0 if none
FirstOfType(list, kind) ==
    LET hits == { i \in 1..Len(list) : list[i].type = kind }
    IN  IF hits = {} THEN 0 ELSE CHOOSE i \in hits : \A j \in hits : i <= j

\* ListTrees, then the scan for an existing tree
createAndInit_ListTrees(c, kind, ok) ==
    /\ alive /\ calls[c].pc = "idle"
    /\ LET found == FirstOfType(trees, kind)
           begun == [Idle EXCEPT !.op = "provision", !.kind = kind,
                                 !.srv = IF ok THEN "ok" ELSE "fail"]
       IN  calls' = [calls EXCEPT ![c] =
               IF ~ok THEN [begun EXCEPT !.pc = "done", !.err = "list"]
               ELSE IF found # 0 THEN [begun EXCEPT !.pc = "done", !.tree = found]
               ELSE [begun EXCEPT !.pc = "create"]]
    /\ UNCHANGED <<trees, logs, logID, provisioned, alive, enforce>>

\* CreateTree
createAndInit_CreateTree(c, ok) ==
    /\ alive /\ calls[c].pc = "create"
    /\ IF ok
       THEN /\ Len(trees) < MaxTrees
            /\ trees' = Append(trees, NewTree(calls[c].kind))
            /\ calls' = [calls EXCEPT ![c].pc = "init", ![c].tree = Len(trees) + 1,
                                      ![c].creates = @ + 1]
       ELSE /\ calls' = [calls EXCEPT ![c].pc = "done", ![c].err = "create",
                                      ![c].creates = @ + 1, ![c].srv = "fail"]
            /\ UNCHANGED trees
    /\ UNCHANGED <<logs, logID, provisioned, alive, enforce>>

\* a provisioner that returns the created tree although its initialization failed
createAndInit_InitLog_IgnoresFailure(c, ok) ==
    /\ alive /\ calls[c].pc = "init"
    /\ IF ok
       THEN /\ trees' = [trees EXCEPT ![calls[c].tree].init = TRUE]
            /\ calls' = [calls EXCEPT ![c].pc = "done", ![c].inits = @ + 1]
       ELSE /\ calls' = [calls EXCEPT ![c].pc = "done", ![c].inits = @ + 1,
                                      ![c].srv = "fail"]
            /\ UNCHANGED trees
    /\ UNCHANGED <<logs, logID, provisioned, alive, enforce>>

\* client.InitLog / client.InitMap
createAndInit_InitLog(c, ok) ==
    /\ alive /\ calls[c].pc = "init"
    /\ IF ok
       THEN /\ trees' = [trees EXCEPT ![calls[c].tree].init = TRUE]
            /\ calls' = [calls EXCEPT ![c].pc = "done", ![c].inits = @ + 1]
       ELSE /\ calls' = [calls EXCEPT ![c].pc = "done", ![c].err = "init", ![c].tree = 0,
                                      ![c].inits = @ + 1, ![c].srv = "fail"]
            /\ UNCHANGED trees
    /\ UNCHANGED <<logs, logID, provisioned, alive, enforce>>

\* the caller takes the result; a provisioned tree is remembered
Return(c) ==
    /\ alive /\ calls[c].pc = "done"
    /\ calls' = [calls EXCEPT ![c] = Idle]
    /\ provisioned' =
           IF calls[c].op = "provision" /\ calls[c].err = "nil"
           THEN [provisioned EXCEPT ![c][calls[c].kind] = calls[c].tree]
           ELSE provisioned
    /\ UNCHANGED <<trees, logs, logID, alive, enforce>>

\* ---- the log service's answers -------------------------------------------------
\* the leaf hash the service stores with a sequenced leaf, by the tree's strategy
ServerLeafHash(tid, leaf) ==
    IF trees[tid].strategy = RFC6962 THEN HashLeaf(leaf) ELSE leaf

\* GetLatestSignedLogRoot: the root over the leaves sequenced so far
SignedRoot(tid) ==
    [size |-> Len(logs[tid].leaves), hash |-> MerkleTreeHash(logs[tid].leaves)]

\* GetLeavesByHash: the sequenced leaves stored under the hash
LeavesByHash(tid, hash) ==
    LET lv == logs[tid].leaves
    IN  SelectSeq(lv, LAMBDA x : ServerLeafHash(tid, x) = hash)

\* 0-based index of the sequenced leaf stored under the hash, -1 if there is none
IndexByHash(tid, hash) ==
    LET lv == logs[tid].leaves
        hits == { i \in 1..Len(lv) : ServerLeafHash(tid, lv[i]) = hash }
    IN  IF hits = {} THEN -1 ELSE (CHOOSE i \in hits : TRUE) - 1

Reply(srv, code, proofs) ==
    [srv |-> srv, code |-> code,
     resp |-> [nil |-> code # "OK", proofs |-> proofs, leaves |-> <<>>]]

\* GetInclusionProofByHash as the service implements it
HonestProofReply(tid, hash, size) ==
    IF ~Serves(tid) THEN Reply("honest", "NotFound", <<>>)
    ELSE IF size <= 0 THEN Reply("honest", "InvalidArgument", <<>>)
    ELSE IF size > Len(logs[tid].leaves) THEN Reply("honest", "OK", <<>>)
    ELSE LET i == IndexByHash(tid, hash)
         IN  IF i < 0 \/ i >= size THEN Reply("honest", "NotFound", <<>>)
             ELSE Reply("honest", "OK",
                        << [leafIndex |-> i,
                            hashes |-> MerklePath(i, SubSeq(logs[tid].leaves, 1, size))] >>)

\* one byte of a hash altered
MutateHash(h) == [h EXCEPT ![Len(h)] = (@ + 1) % 256]

\* the ways a faulty service can spoil one proof
Spoiled(pr) ==
    { [pr EXCEPT !.hashes[j] = MutateHash(@)] : j \in 1..Len(pr.hashes) }
    \cup { [pr EXCEPT !.leafIndex = @ + 1] }
    \cup { [pr EXCEPT !.hashes = Append(@, EmptyRoot)] }
    \cup { [pr EXCEPT !.hashes = SubSeq(@, 1, Len(@) - 1)] : j \in 1..Len(pr.hashes) }

\* replies of a faulty service: a spoiled proof, alone or after the true one
CorruptProofReplies(tid, hash, size) ==
    LET honest == HonestProofReply(tid, hash, size).resp.proofs
        base == IF honest = <<>> THEN [leafIndex |-> 0, hashes |-> <<>>] ELSE honest[1]
    IN  { Reply("corrupt", "OK", <<bad>>) : bad \in Spoiled(base) }
        \cup { Reply("corrupt", "OK", honest \o <<bad>>) : bad \in Spoiled(base) }

\* every answer the proof request can get; a service that never answers ends
\* the request at the deadline of ctx
ProofReplies(tid, hash, size) ==
    { HonestProofReply(tid, hash, size) }
    \cup CorruptProofReplies(tid, hash, size)
    \cup { Reply("fail", "Unavailable", <<>>), Reply("hang", "DeadlineExceeded", <<>>) }

\* where the payload stood in tree tid when the service answered a request
Standing(tid, p) ==
    IF ~Serves(tid) THEN "noTree"
    ELSE IF p \in SeqToSet(logs[tid].leaves) THEN "sequenced"
    ELSE IF p \in logs[tid].queued THEN "queued"
    ELSE "absent"

\* ---- trillianclient.root ---------------------------------------------------------
RootOutcomes == {"ok", "fail", "decode", "hang"}

\* lines 59-61: the request for the latest signed root
RootRequest == [LogId |-> logID]

\* the (root, error) pair root() returns when the service answers
RootResult(outcome) ==
    IF outcome = "ok" THEN [root |-> SignedRoot(RootRequest.LogId), err |-> "nil"]
    ELSE IF outcome = "fail" THEN [root |-> NoRoot, err |-> "transport"]
    ELSE [root |-> NoRoot, err |-> "decode"]

\* the service can answer a root request with a root only for a tree it serves
RootPossible(outcome) == outcome \in {"ok", "decode"} => Serves(RootRequest.LogId)

GetLatestRoot(c, outcome) ==
    /\ alive /\ calls[c].pc = "idle"
    /\ RootPossible(outcome)
    /\ LET begun == [Idle EXCEPT !.op = "root", !.tid = logID, !.srv = outcome]
       IN  calls' = [calls EXCEPT ![c] =
               IF outcome = "hang" THEN [begun EXCEPT !.pc = "blocked"]
               ELSE [begun EXCEPT !.pc = "done",
                                  !.root = RootResult(outcome).root,
                                  !.err = RootResult(outcome).err]]
    /\ UNCHANGED <<trees, logs, logID, provisioned, alive, enforce>>

\* ---- trillianclient.getProof -----------------------------------------------------
\* a getProof that goes on to the proof request after a failed root fetch
getProofRoot_IgnoresError(c, p, tid, outcome) ==
    /\ alive /\ calls[c].pc = "idle"
    /\ RootPossible(outcome)
    /\ LET begun == [Idle EXCEPT !.op = "getProof", !.payload = p, !.tid = tid,
                                 !.srv = outcome, !.rootSrv = outcome]
       IN  calls' = [calls EXCEPT ![c] =
               IF outcome = "hang" THEN [begun EXCEPT !.pc = "blocked"]
               ELSE IF outcome = "ok"
               THEN [begun EXCEPT !.pc = "proof", !.root = RootResult(outcome).root]
               ELSE [begun EXCEPT !.pc = "proof"]]
    /\ UNCHANGED <<trees, logs, logID, provisioned, alive, enforce>>

\* a getProof that keeps the tree id of the call in the client
getProofRoot_StoresLogID(c, p, tid, outcome) ==
    /\ alive /\ calls[c].pc = "idle"
    /\ RootPossible(outcome)
    /\ LET begun == [Idle EXCEPT !.op = "getProof", !.payload = p, !.tid = tid,
                                 !.srv = outcome, !.rootSrv = outcome]
       IN  calls' = [calls EXCEPT ![c] =
               IF outcome = "hang" THEN [begun EXCEPT !.pc = "blocked"]
               ELSE IF outcome = "ok"
               THEN [begun EXCEPT !.pc = "proof", !.root = RootResult(outcome).root]
               ELSE [begun EXCEPT !.pc = "done", !.err = RootResult(outcome).err]]
    /\ logID' = tid
    /\ UNCHANGED <<trees, logs, provisioned, alive, enforce>>

\* lines 77-80: the root fetch, under context.Background()
getProofRoot(c, p, tid, outcome) ==
    /\ alive /\ calls[c].pc = "idle"
    /\ RootPossible(outcome)
    /\ LET begun == [Idle EXCEPT !.op = "getProof", !.payload = p, !.tid = tid,
                                 !.srv = outcome, !.rootSrv = outcome]
       IN  calls' = [calls EXCEPT ![c] =
               IF outcome = "hang" THEN [begun EXCEPT !.pc = "blocked"]
               ELSE IF outcome = "ok"
               THEN [begun EXCEPT !.pc = "proof", !.root = RootResult(outcome).root]
               ELSE [begun EXCEPT !.pc = "done", !.err = RootResult(outcome).err]]
    /\ UNCHANGED <<trees, logs, logID, provisioned, alive, enforce>>

\* a client that looks leaves up by the digest of the raw bytes, without the
\* leaf prefix
LeafHashOf_NoPrefix(byteValue) == <<Len(byteValue)>> \o byteValue

\* lines 84-85 and 135-136: the leaf hash the client computes for a payload
LeafHashOf(byteValue) == HashLeaf(byteValue)

\* a request for a proof at the tree's latest size instead of the fetched root's
ProofRequest_LatestSize(call) ==
    [LogId |-> call.tid, LeafHash |-> LeafHashOf(call.payload),
     TreeSize |-> IF call.tid \in TreeIds THEN Len(logs[call.tid].leaves) ELSE 0]

\* lines 88-92: the inclusion-proof request
ProofRequest(call) ==
    [LogId |-> call.tid, LeafHash |-> LeafHashOf(call.payload),
     TreeSize |-> call.root.size]

\* a verifier that checks only the first proof of the response
AllProofsVerify_FirstOnly(resp, root, leafHash) ==
    resp.nil \/ resp.proofs = <<>> \/
        VerifyInclusionProof(resp.proofs[1].leafIndex, root.size,
                             resp.proofs[1].hashes, root.hash, leafHash)

\* lines 96-106: every proof of a non-nil response must verify
AllProofsVerify(resp, root, leafHash) ==
    resp.nil \/ \A i \in 1..Len(resp.proofs) :
        VerifyInclusionProof(resp.proofs[i].leafIndex, root.size,
                             resp.proofs[i].hashes, root.hash, leafHash)

\* a getProof that turns every failed proof request into an error
getProofReturn_ErrOnStatus(reply, root, leafHash) ==
    IF ~AllProofsVerify(reply.resp, root, leafHash)
    THEN [err |-> "verification", status |-> "-", resp |-> NilResp]
    ELSE IF reply.code # "OK"
    THEN [err |-> "transport", status |-> "-", resp |-> NilResp]
    ELSE [err |-> "nil", status |-> reply.code, resp |-> reply.resp]

\* lines 94-111: what getProof returns for the reply to its proof request
getProofReturn(reply, root, leafHash) ==
    IF AllProofsVerify(reply.resp, root, leafHash)
    THEN [err |-> "nil", status |-> reply.code, resp |-> reply.resp]
    ELSE [err |-> "verification", status |-> "-", resp |-> NilResp]

\* lines 84-111: the proof request under ctx, then the verification
getProofFetch(c, reply) ==
    /\ alive /\ calls[c].pc = "proof"
    /\ LET ret == getProofReturn(reply, calls[c].root, LeafHashOf(calls[c].payload))
       IN  calls' = [calls EXCEPT ![c].pc = "done", ![c].got = reply.resp,
                                  ![c].srv = reply.srv, ![c].resp = ret.resp,
                                  ![c].err = ret.err, ![c].status = ret.status,
                                  ![c].proofReqs = @ + 1,
                                  ![c].seen = Standing(calls[c].tid, calls[c].payload),
                                  ![c].skew = /\ Serves(calls[c].tid)
                                              /\ Len(logs[calls[c].tid].leaves)
                                                     > calls[c].root.size]
    /\ UNCHANGED <<trees, logs, logID, provisioned, alive, enforce>>

\* ---- trillianclient.addLeaf ------------------------------------------------------
RpcOutcomes == {"ok", "fail", "hang"}

\* QueueLeaf is accepted by an active log the service serves
Accepts(tid) == Serves(tid) /\ trees[tid].state = ACTIVE

Known(tid, p) == p \in logs[tid].queued \/ p \in SeqToSet(logs[tid].leaves)

\* the status the service reports for the queued leaf
QueueStatus(tid, p) == IF Known(tid, p) THEN "AlreadyExists" ELSE "OK"

\* lines 122-131: how addLeaf ends once QueueLeaf has answered.  A failed
\* request leaves resp nil, and line 127 reads resp.QueuedLeaf.
addLeafEnd(call, outcome, code) ==
    IF outcome = "ok"
    THEN [call EXCEPT !.pc = "done", !.status = code, !.err = "nil"]
    ELSE [call EXCEPT !.pc = "panicked"]

addLeaf(c, p, tid, outcome) ==
    /\ alive /\ calls[c].pc = "idle"
    /\ outcome = "ok" => Accepts(tid)
    /\ LET begun == [Idle EXCEPT !.op = "addLeaf", !.payload = p, !.tid = tid,
                                 !.srv = outcome, !.seen = Standing(tid, p)]
       IN  calls' = [calls EXCEPT ![c] =
               IF outcome = "hang" THEN [begun EXCEPT !.pc = "blocked"]
               ELSE addLeafEnd(begun, outcome,
                               IF outcome = "ok" THEN QueueStatus(tid, p) ELSE "-")]
    /\ logs' = IF outcome = "ok" /\ ~Known(tid, p)
               THEN [logs EXCEPT ![tid].queued = @ \cup {p}]
               ELSE logs
    /\ UNCHANGED <<trees, logID, provisioned, alive, enforce>>

\* ---- trillianclient.getLeaf ------------------------------------------------------
\* a lookup that treats an empty result like a failed request
getLeafEnd_EmptyIsFatal(call, outcome, found) ==
    IF outcome = "ok" /\ found # <<>>
    THEN [call EXCEPT !.pc = "done", !.status = "OK", !.err = "nil",
                      !.resp = [nil |-> FALSE, proofs |-> <<>>, leaves |-> found]]
    ELSE [call EXCEPT !.pc = "exited"]

\* lines 143-151: how getLeaf ends once GetLeavesByHash has answered
getLeafEnd(call, outcome, found) ==
    IF outcome = "ok"
    THEN [call EXCEPT !.pc = "done", !.status = "OK", !.err = "nil",
                      !.resp = [nil |-> FALSE, proofs |-> <<>>, leaves |-> found]]
    ELSE [call EXCEPT !.pc = "exited"]

getLeaf(c, p, tid, outcome) ==
    /\ alive /\ calls[c].pc = "idle"
    /\ outcome = "ok" => Serves(tid)
    /\ LET begun == [Idle EXCEPT !.op = "getLeaf", !.payload = p, !.tid = tid,
                                 !.srv = outcome, !.seen = Standing(tid, p)]
           found == IF outcome = "ok" THEN LeavesByHash(tid, LeafHashOf(p)) ELSE <<>>
       IN  calls' = [calls EXCEPT ![c] =
               IF outcome = "hang" THEN [begun EXCEPT !.pc = "blocked"]
               ELSE getLeafEnd(begun, outcome, found)]
    /\ alive' = (outcome # "fail")
    /\ UNCHANGED <<trees, logs, logID, provisioned, enforce>>

\* ---- trillian-log-signer ---------------------------------------------------------
\* the signer sequences one queued leaf into the tree and signs the new root
Sequence(tid, p) ==
    /\ Serves(tid)
    /\ p \in logs[tid].queued
    /\ Len(logs[tid].leaves) < MaxLeaves
    /\ logs' = [logs EXCEPT ![tid].queued = @ \ {p}, ![tid].leaves = Append(@, p)]
    /\ UNCHANGED <<trees, logID, calls, provisioned, alive, enforce>>

\* ---- net/http.DetectContentType ---------------------------------------------------
\* content types are strings, kept as sequences of characters
TextPlainUTF8 == <<"t", "e", "x", "t", "/", "p", "l", "a", "i", "n", ";", " ", "c", "h", "a", "r", "s", "e", "t", "=", "u", "t", "f", "-", "8">>
TextPlainUTF16BE == <<"t", "e", "x", "t", "/", "p", "l", "a", "i", "n", ";", " ", "c", "h", "a", "r", "s", "e", "t", "=", "u", "t", "f", "-", "1", "6", "b", "e">>
TextPlainUTF16LE == <<"t", "e", "x", "t", "/", "p", "l", "a", "i", "n", ";", " ", "c", "h", "a", "r", "s", "e", "t", "=", "u", "t", "f", "-", "1", "6", "l", "e">>
TextHTML == <<"t", "e", "x", "t", "/", "h", "t", "m", "l", ";", " ", "c", "h", "a", "r", "s", "e", "t", "=", "u", "t", "f", "-", "8">>
ApplicationPDF == <<"a", "p", "p", "l", "i", "c", "a", "t", "i", "o", "n", "/", "p", "d", "f">>
ImagePNG == <<"i", "m", "a", "g", "e", "/", "p", "n", "g">>
ImageJPEG == <<"i", "m", "a", "g", "e", "/", "j", "p", "e", "g">>
OctetStream == <<"a", "p", "p", "l", "i", "c", "a", "t", "i", "o", "n", "/", "o", "c", "t", "e", "t", "-", "s", "t", "r", "e", "a", "m">>
\* the substring IsFileTypeAllowed looks for
TextPlain == <<"t", "e", "x", "t", "/", "p", "l", "a", "i", "n">>

\* strings.Contains
Contains(str, substr) ==
    \E i \in 1..(Len(str) - Len(substr) + 1) :
        SubSeq(str, i, i + Len(substr) - 1) = substr

\* bytes.HasPrefix
HasPrefix(data, prefix) ==
    Len(data) >= Len(prefix) /\ SubSeq(data, 1, Len(prefix)) = prefix

isWS(b) == b \in {9, 10, 12, 13, 32}

\* number of leading whitespace bytes
RECURSIVE FirstNonWS(_)
FirstNonWS(data) ==
    IF data # <<>> /\ isWS(Head(data)) THEN 1 + FirstNonWS(Tail(data)) ELSE 0

\* a byte that textSig takes for binary data
isBinary(b) == b <= 8 \/ b = 11 \/ (14 <= b /\ b <= 26) \/ (28 <= b /\ b <= 31)

\* data[i] & 0xDF for the letters: the case-insensitive comparison of htmlSig
UpperByte(b) == IF 97 <= b /\ b <= 122 THEN b - 32 ELSE b

\* b & m for the masks 0xFF and 0x00 of the byte-order-mark signatures
AndMask(b, m) == IF m = 255 THEN b ELSE 0

\* the signatures tried, in the order of sniffSignatures
SniffSignatures ==
    << [kind |-> "html", sig |-> <<60, 72, 84, 77, 76>>, mask |-> <<>>, ct |-> TextHTML],
       [kind |-> "exact", sig |-> <<37, 80, 68, 70, 45>>, mask |-> <<>>, ct |-> ApplicationPDF],
       [kind |-> "masked", sig |-> <<254, 255, 0, 0>>, mask |-> <<255, 255, 0, 0>>,
        ct |-> TextPlainUTF16BE],
       [kind |-> "masked", sig |-> <<255, 254, 0, 0>>, mask |-> <<255, 255, 0, 0>>,
        ct |-> TextPlainUTF16LE],
       [kind |-> "masked", sig |-> <<239, 187, 191, 0>>, mask |-> <<255, 255, 255, 0>>,
        ct |-> TextPlainUTF8],
       [kind |-> "exact", sig |-> <<137, 80, 78, 71, 13, 10, 26, 10>>, mask |-> <<>>, ct |-> ImagePNG],
       [kind |-> "exact", sig |-> <<255, 216, 255>>, mask |-> <<>>, ct |-> ImageJPEG],
       [kind |-> "text", sig |-> <<>>, mask |-> <<>>, ct |-> TextPlainUTF8] >>

\* sniffSig.match: TRUE when the signature recognises the data
SigMatches(sg, data, firstNonWS) ==
    LET rest == SubSeq(data, firstNonWS + 1, Len(data))
    IN  IF sg.kind = "html"
        THEN /\ Len(rest) >= Len(sg.sig) + 1
             /\ \A i \in 1..Len(sg.sig) : UpperByte(rest[i]) = sg.sig[i]
             /\ rest[Len(sg.sig) + 1] \in {32, 62}
        ELSE IF sg.kind = "exact" THEN HasPrefix(data, sg.sig)
        ELSE IF sg.kind = "masked"
        THEN /\ Len(data) >= Len(sg.sig)
             /\ \A i \in 1..Len(sg.sig) : AndMask(data[i], sg.mask[i]) = sg.sig[i]
        ELSE \A i \in 1..Len(rest) : ~isBinary(rest[i])

DetectContentType(data) ==
    LET firstNonWS == FirstNonWS(data)
        hits == { k \in 1..Len(SniffSignatures) :
                      SigMatches(SniffSignatures[k], data, firstNonWS) }
    IN  IF hits = {} THEN OctetStream
        ELSE SniffSignatures[CHOOSE k \in hits : \A j \in hits : k <= j].ct

\* ---- IsFileTypeAllowed ---------------------------------------------------------------
\* byte strings the policy is asked about
HelloWorld == <<104, 101, 108, 108, 111, 32, 119, 111, 114, 108, 100>>
PNGMagic == <<137, 80, 78, 71, 13, 10, 26, 10>>
PolicyInputs ==
    Payloads \cup
    { <<>>, HelloWorld, PNGMagic, <<37, 80, 68, 70, 45, 49>>, <<60, 104, 116, 109, 108, 62>>, <<255, 216, 255, 224>>,
      <<254, 255, 0, 97>>, <<32, 97>>, <<32, 0>>, <<9>>, <<27>> }

\* a policy that sniffs the content whatever the flag says
IsFileTypeAllowed_FlagIgnored(byteLeaf) ==
    [allowed |-> Contains(DetectContentType(byteLeaf), TextPlain), err |-> "nil"]

\* lines 10-23 of the policy file: the (bool, error) pair returned
IsFileTypeAllowed(byteLeaf) ==
    LET contentType == DetectContentType(byteLeaf)
    IN  IF enforce
        THEN IF ~Contains(contentType, TextPlain)
             THEN [allowed |-> FALSE, err |-> "nil"]
             ELSE [allowed |-> TRUE, err |-> "nil"]
        ELSE [allowed |-> TRUE, err |-> "nil"]

\* a caller asks the policy about a payload
isAllowed(c, p) ==
    /\ alive /\ calls[c].pc = "idle"
    /\ calls' = [calls EXCEPT ![c] =
           [Idle EXCEPT !.op = "isAllowed", !.pc = "done", !.payload = p,
                        !.allowed = IsFileTypeAllowed(p).allowed,
                        !.err = IsFileTypeAllowed(p).err]]
    /\ UNCHANGED <<trees, logs, logID, provisioned, alive, enforce>>

\* ---- specifications --------------------------------------------------------------
\* the steps of caller c
Step(c) ==
    \/ \E kind \in {LOG, MAP}, ok \in BOOLEAN : createAndInit_ListTrees(c, kind, ok)
    \/ \E ok \in BOOLEAN : createAndInit_CreateTree(c, ok)
    \/ \E ok \in BOOLEAN : createAndInit_InitLog(c, ok)
    \/ \E outcome \in RootOutcomes : GetLatestRoot(c, outcome)
    \/ \E p \in Payloads, tid \in TreeIds, outcome \in RootOutcomes :
           getProofRoot(c, p, tid, outcome)
    \/ \E reply \in ProofReplies(ProofRequest(calls[c]).LogId,
                                 ProofRequest(calls[c]).LeafHash,
                                 ProofRequest(calls[c]).TreeSize) : getProofFetch(c, reply)
    \/ \E p \in Payloads, tid \in TreeIds, outcome \in RpcOutcomes :
           addLeaf(c, p, tid, outcome)
    \/ \E p \in Payloads, tid \in TreeIds, outcome \in RpcOutcomes :
           getLeaf(c, p, tid, outcome)
    \/ \E p \in PolicyInputs : isAllowed(c, p)
    \/ Return(c)

Signer == \E tid \in TreeIds, p \in Payloads : Sequence(tid, p)

\* one caller using the client, and the log service
Next == Step(1) \/ Signer

Spec == Init /\ [][Next]_vars

\* a caller that can take a step does take it; the service owes nothing
FairSpec == Spec /\ WF_vars(Step(1))

\* the provisioning steps of caller c
ProvisionStep(c) ==
    \/ \E kind \in {LOG, MAP}, ok \in BOOLEAN : createAndInit_ListTrees(c, kind, ok)
    \/ \E ok \in BOOLEAN : createAndInit_CreateTree(c, ok)
    \/ \E ok \in BOOLEAN : createAndInit_InitLog(c, ok)
    \/ Return(c)

\* several callers provisioning at the same time
ProvisionNext == \E c \in Callers : ProvisionStep(c)

ProvisionSpec == Init /\ [][ProvisionNext]_vars

\* ---- properties --------------------------------------------------------------------
Call(c) == calls[c]

\* the root hash a returned proof re-derives for a call's leaf and fetched tree size
Rederived(call, proof) ==
    RootFromInclusionProof(proof.leafIndex, call.root.size, proof.hashes,
                           HashLeaf(call.payload))

\* C1: a getProof call whose proof response holds a proof that does not re-derive
\* the root hash fetched by that call returns a verification error and no result
C1_NoUnconfirmedProof ==
    \A c \in Callers :
        (/\ Call(c).op = "getProof" /\ Call(c).pc = "done"
         /\ ~Call(c).got.nil
         /\ \E i \in 1..Len(Call(c).got.proofs) :
                Rederived(Call(c), Call(c).got.proofs[i]) # Call(c).root.hash)
        => (Call(c).err = "verification" /\ Call(c).resp = NilResp)

\* a response whose first proof is the true one and whose second has an altered hash
C1_Witness ==
    \E c \in Callers :
        /\ Call(c).op = "getProof" /\ Call(c).pc = "done"
        /\ Len(Call(c).got.proofs) = 2
        /\ Rederived(Call(c), Call(c).got.proofs[1]) = Call(c).root.hash
        /\ Call(c).got.proofs[2].leafIndex = Call(c).got.proofs[1].leafIndex
        /\ Len(Call(c).got.proofs[2].hashes) = Len(Call(c).got.proofs[1].hashes)
        /\ Call(c).got.proofs[2].hashes # Call(c).got.proofs[1].hashes
        /\ Call(c).err = "verification"

\* C2: a ProvisionTree(LOG) call that follows a successful one by the same caller
\* issues no create request and, when it succeeds, returns the same tree
C2_ProvisionIdempotent ==
    \A c \in Callers :
        (/\ Call(c).op = "provision" /\ Call(c).kind = LOG
         /\ provisioned[c][LOG] # 0)
        => /\ Call(c).creates = 0
           /\ Call(c).pc = "done"
           /\ Call(c).err = "nil" => Call(c).tree = provisioned[c][LOG]

\* the second call returns the tree the first call created
C2_Witness ==
    \E c \in Callers :
        /\ Call(c).op = "provision" /\ Call(c).kind = LOG
        /\ Call(c).pc = "done" /\ Call(c).err = "nil"
        /\ provisioned[c][LOG] # 0
        /\ Call(c).tree = provisioned[c][LOG]
        /\ trees[Call(c).tree].byClient

\* C3: every tree that the provisioner created and that a ProvisionTree call
\* returns without error has been initialized
C3_ReturnedTreeInitialized ==
    \A c \in Callers :
        (/\ Call(c).op = "provision" /\ Call(c).pc = "done"
         /\ Call(c).err = "nil"
         /\ trees[Call(c).tree].byClient)
        => trees[Call(c).tree].init

\* C4: when the QueueLeaf request fails, addLeaf returns normally with a non-nil
\* error
C4_SubmitReturnsError ==
    \A c \in Callers :
        (Call(c).op = "addLeaf" /\ Call(c).srv = "fail")
        => (Call(c).pc = "done" /\ Call(c).err # "nil")

\* C5: no operation terminates the process
C5_NeverTerminates == alive /\ \A c \in Callers : Call(c).pc # "exited"

\* C6: getLeaf for a payload that was never submitted to the tree returns no leaf
\* and a nil error, and a failed request never ends in that result
C6_NotFoundIsNormal ==
    \A c \in Callers :
        Call(c).op = "getLeaf" =>
            /\ (Call(c).srv = "ok" /\ Call(c).seen = "absent")
                   => /\ Call(c).pc = "done" /\ Call(c).err = "nil"
                      /\ Call(c).status = "OK"
                      /\ ~Call(c).resp.nil /\ Call(c).resp.leaves = <<>>
            /\ Call(c).srv = "fail"
                   => ~(Call(c).pc = "done" /\ Call(c).resp.leaves = <<>>)

\* a lookup of an unknown payload in a tree that holds other leaves
C6_Witness ==
    \E c \in Callers :
        /\ Call(c).op = "getLeaf" /\ Call(c).pc = "done"
        /\ Call(c).seen = "absent"
        /\ Call(c).resp.leaves = <<>>
        /\ Len(logs[Call(c).tid].leaves) > 0

\* C7: a getProof call that the service stops answering eventually returns
C7_VerifyBounded ==
    \A c \in Callers :
        (Call(c).op = "getProof" /\ Call(c).srv = "hang") ~> (Call(c).pc = "done")

\* the leaf of the call is among the first root.size leaves of the call's tree
IncorporatedAtRoot(call) ==
    /\ Serves(call.tid)
    /\ IndexByHash(call.tid, HashLeaf(call.payload)) \in 0..(call.root.size - 1)

\* C8: for a leaf incorporated in the tree at the fetched root, getProof on that
\* tree succeeds against a service that answers truthfully, and the returned
\* proof re-derives the root hash fetched in the same call
C8_IncorporatedLeafVerifies ==
    \A c \in Callers :
        (/\ Call(c).op = "getProof" /\ Call(c).pc = "done"
         /\ Call(c).srv = "honest"
         /\ Call(c).tid = logID
         /\ IncorporatedAtRoot(Call(c)))
        => /\ Call(c).err = "nil"
           /\ ~Call(c).resp.nil
           /\ Len(Call(c).resp.proofs) = 1
           /\ Rederived(Call(c), Call(c).resp.proofs[1]) = Call(c).root.hash
           /\ Call(c).root.hash =
                  MerkleTreeHash(SubSeq(logs[logID].leaves, 1, Call(c).root.size))

\* the service sequenced a further leaf between the root fetch and the proof fetch
C8_Witness ==
    \E c \in Callers :
        /\ Call(c).op = "getProof" /\ Call(c).pc = "done"
        /\ Call(c).srv = "honest" /\ Call(c).tid = logID
        /\ IncorporatedAtRoot(Call(c))
        /\ Call(c).skew
        /\ Call(c).root.size >= 2
        /\ Call(c).err = "nil"

\* C9: getProof for a leaf that is queued but not sequenced returns no proof and
\* a nil error when the service answers truthfully
C9_QueuedLeafNoProof ==
    \A c \in Callers :
        (/\ Call(c).op = "getProof" /\ Call(c).pc = "done"
         /\ Call(c).srv = "honest"
         /\ Call(c).seen = "queued")
        => /\ Call(c).err = "nil"
           /\ Call(c).resp.proofs = <<>>

\* the leaf waits in the queue of a tree that already holds sequenced leaves
C9_Witness ==
    \E c \in Callers :
        /\ Call(c).op = "getProof" /\ Call(c).pc = "done"
        /\ Call(c).srv = "honest" /\ Call(c).seen = "queued"
        /\ Call(c).root.size > 0
        /\ Call(c).resp.nil /\ Call(c).status = "NotFound"

\* C10: getLeaf for a payload that was submitted and has been sequenced returns
\* exactly the leaf whose value is the payload
C10_RoundTrip ==
    \A c \in Callers :
        (/\ Call(c).op = "getLeaf" /\ Call(c).srv = "ok"
         /\ Call(c).seen = "sequenced")
        => /\ Call(c).pc = "done" /\ Call(c).err = "nil"
           /\ Call(c).resp.leaves = <<Call(c).payload>>

\* the payload is found in a tree holding several leaves
C10_Witness ==
    \E c \in Callers :
        /\ Call(c).op = "getLeaf" /\ Call(c).pc = "done"
        /\ Call(c).seen = "sequenced"
        /\ Call(c).resp.leaves = <<Call(c).payload>>
        /\ Len(logs[Call(c).tid].leaves) >= 2
        /\ logs[Call(c).tid].leaves[1] # Call(c).payload

\* C11: a provisioning call whose ListTrees, CreateTree or initialization request
\* failed returns that request's error and no tree, and issues no later request
C11_ProvisionReportsFailure ==
    \A c \in Callers :
        (Call(c).op = "provision" /\ Call(c).srv = "fail")
        => /\ Call(c).pc = "done" /\ Call(c).tree = 0
           /\ Call(c).creates = 0 => (Call(c).err = "list" /\ Call(c).inits = 0)
           /\ (Call(c).creates = 1 /\ Call(c).inits = 0) => Call(c).err = "create"
           /\ Call(c).inits = 1 => Call(c).err = "init"
           /\ Call(c).creates <= 1 /\ Call(c).inits <= 1

\* the initialization of a newly created map tree fails
C11_Witness ==
    \E c \in Callers :
        /\ Call(c).op = "provision" /\ Call(c).kind = MAP
        /\ Call(c).pc = "done" /\ Call(c).err = "init"
        /\ Call(c).creates = 1 /\ Call(c).inits = 1
        /\ Len(trees) >= 1 /\ ~trees[Len(trees)].init

\* C12: a tree that ProvisionTree reuses is an active tree of the requested type
C12_ReusedTreeActive ==
    \A c \in Callers :
        (/\ Call(c).op = "provision" /\ Call(c).pc = "done"
         /\ Call(c).err = "nil" /\ Call(c).creates = 0)
        => /\ trees[Call(c).tree].type = Call(c).kind
           /\ trees[Call(c).tree].state = ACTIVE

\* C13: a getProof call whose inclusion-proof request failed at the RPC level
\* issued one proof request and returns a non-nil error
C13_TransportErrorSurfaced ==
    \A c \in Callers :
        (/\ Call(c).op = "getProof" /\ Call(c).proofReqs >= 1
         /\ Call(c).srv \in {"fail", "hang"})
        => /\ Call(c).pc = "done" /\ Call(c).proofReqs = 1
           /\ Call(c).err # "nil"

\* C14: addLeaf, getLeaf and root return a timeout error when the service never
\* answers their request
C14_RoundTripsBounded ==
    \A c \in Callers :
        (Call(c).op \in {"addLeaf", "getLeaf", "root"} /\ Call(c).srv = "hang")
        => (Call(c).pc = "done" /\ Call(c).err # "nil")

\* the verdict the policy owes a payload under the flag
Verdict(p) == ~enforce \/ Contains(DetectContentType(p), TextPlain)

\* C15: IsFileTypeAllowed returns a nil error and allowed = (flag off or the
\* sniffed type contains "text/plain"); text and the empty payload are allowed,
\* a PNG image is allowed only with the flag off
C15_PolicyVerdict ==
    \A c \in Callers :
        (Call(c).op = "isAllowed" /\ Call(c).pc = "done")
        => /\ Call(c).err = "nil"
           /\ Call(c).allowed = Verdict(Call(c).payload)
           /\ Call(c).payload \in {<<>>, HelloWorld} => Call(c).allowed
           /\ Call(c).payload = PNGMagic => (Call(c).allowed = ~enforce)

\* a PNG image is refused under the flag
C15_Witness ==
    \E c \in Callers :
        /\ Call(c).op = "isAllowed" /\ Call(c).pc = "done"
        /\ enforce /\ Call(c).payload = PNGMagic
        /\ ~Call(c).allowed

\* C16: no payload for which IsFileTypeAllowed returns false under the
\* configuration is in the pending-leaf queue or among the sequenced leaves of
\* a tree
C16_PolicyGatesSubmit ==
    \A tid \in TreeIds :
        \A p \in logs[tid].queued \cup SeqToSet(logs[tid].leaves) :
            IsFileTypeAllowed(p).allowed

\* C17: a getProof call whose root fetch failed returns that error, issues no
\* proof request and verifies nothing
C17_FailFastOnRoot ==
    \A c \in Callers :
        (Call(c).op = "getProof" /\ Call(c).rootSrv \in {"fail", "decode"})
        => /\ Call(c).pc = "done"
           /\ Call(c).err = (IF Call(c).rootSrv = "fail" THEN "transport" ELSE "decode")
           /\ Call(c).proofReqs = 0
           /\ Call(c).got = NilResp /\ Call(c).resp = NilResp

\* the root cannot be decoded although the leaf is sequenced in the tree
C17_Witness ==
    \E c \in Callers :
        /\ Call(c).op = "getProof" /\ Call(c).pc = "done"
        /\ Call(c).rootSrv = "decode" /\ Call(c).err = "decode"
        /\ Standing(Call(c).tid, Call(c).payload) = "sequenced"

\* a getProof call begins and its root fetch is answered
RootFetched(c) ==
    /\ calls[c].pc = "idle"
    /\ calls'[c].op = "getProof" /\ calls'[c].pc = "proof"

\* C18: no step writes the client's logID, and the root a getProof call holds
\* is the root the service signs at the moment of that call's root fetch
C18_Stateless ==
    [][/\ logID' = logID
       /\ \A c \in Callers :
              RootFetched(c) =>
                  calls'[c].root =
                      [size |-> Len(logs[logID].leaves),
                       hash |-> MerkleTreeHash(logs[logID].leaves)]]_vars

\* a proof verified against the root of a tree that has grown to two leaves
C18_Witness ==
    \E c \in Callers :
        /\ Call(c).op = "getProof" /\ Call(c).pc = "done"
        /\ Call(c).err = "nil" /\ Len(Call(c).resp.proofs) = 1
        /\ Call(c).root.size = 2
        /\ Call(c).root.hash = MerkleTreeHash(logs[logID].leaves)

\* C19: the root request and the proof request of a getProof call name the
\* same tree
C19_SameTree ==
    \A c \in Callers :
        (Call(c).op = "getProof" /\ Call(c).proofReqs >= 1)
        => ProofRequest(Call(c)).LogId = RootRequest.LogId

TreesOfKind(kind) == { i \in 1..Len(trees) : trees[i].type = kind }

\* C20: the service holds at most one tree of each kind, and all callers that
\* provisioned a kind hold the same tree
C20_OneTreePerKind ==
    /\ \A kind \in {LOG, MAP} : Cardinality(TreesOfKind(kind)) <= 1
    /\ \A c, d \in Callers :
           (/\ Call(c).op = "provision" /\ Call(c).pc = "done" /\ Call(c).err = "nil"
            /\ Call(d).op = "provision" /\ Call(d).pc = "done" /\ Call(d).err = "nil"
            /\ Call(c).kind = Call(d).kind)
           => Call(c).tree = Call(d).tree

====
